---- MODULE Spec2Model ----
(***************************************************************************)
(* Model of src/ui.py: the intake dialogue controller on_submit of the     *)
(* "Odoo Simulator Chat" (company name -> background -> industry ->        *)
(* customer name -> POST create).                                          *)
(*                                                                         *)
(* Text is a sequence of atoms.  An atom is either a whitespace character  *)
(* or a chunk of non-whitespace characters, so str.strip() is computed on  *)
(* the ends of the sequence and str.lower() chunk by chunk.                *)
(*                                                                         *)
(* One turn of the chat is one call of on_submit (src/ui.py:309).  The     *)
(* session holds the transcript `messages` (the Chatbot value, handed to   *)
(* the handler as a per-event copy and replaced by the returned list) and  *)
(* the dict `state` (the gr.State object, handed to the handler itself and *)
(* mutated in place).  When a turn raises, nothing is returned: the        *)
(* transcript stays as it was, the in-place assignments to the dict made   *)
(* before the raise remain.  gr.State(None) is read through                 *)
(* `state or {...}` (line 78), so None is modelled by the default dict.    *)
(***************************************************************************)
EXTENDS Integers, Sequences, FiniteSets, TLC

VARIABLES state, messages, last, affirmed, settled

vars == <<state, messages, last, affirmed, settled>>

(* settled: from now on the collaborators answer as their prompts and the
   endpoint's contract ask them to, and the user answers the question put to
   them.  It stays FALSE in Spec; LiveSpec may set it at any moment. *)

(* Bound of the exploration: longest transcript a turn may return. *)
MaxMessages == 11

(* raw[:500] in parse_json's fallback answer, counted in atoms. *)
RawLimit == 500

----------------------------------------------------------------------------
(* Text: str.strip, str.lower, concatenation *)

Whitespace == {" ", "\t", "\n"}

RECURSIVE lstrip(_)
lstrip(s) == IF s # <<>> /\ Head(s) \in Whitespace THEN lstrip(Tail(s)) ELSE s

RECURSIVE rstrip(_)
rstrip(s) ==
    IF s # <<>> /\ s[Len(s)] \in Whitespace
    THEN rstrip(SubSeq(s, 1, Len(s) - 1))
    ELSE s

strip_keep(s) == s

strip_left_only(s) == lstrip(s)

strip(s) == rstrip(lstrip(s))

lower_atom(a) ==
    CASE a = "Yes" -> "yes"
      [] a = "YES" -> "yes"
      [] a = "NO" -> "no"
      [] a = "No" -> "no"
      [] a = "Betul" -> "betul"
      [] a = "Acme" -> "acme"
      [] a = "Aerospace" -> "aerospace"
      [] OTHER -> a

lower(s) == [i \in 1..Len(s) |-> lower_atom(s[i])]

Take(s, n) == SubSeq(s, 1, IF Len(s) < n THEN Len(s) ELSE n)

----------------------------------------------------------------------------
(* Program constants *)

INDUSTRIES == <<
    <<"Aerospace">>,
    <<"Education", " ", "&", " ", "Training">>,
    <<"Medical", " ", "Devices">>,
    <<"Smart", " ", "Buildings-Cities">>,
    <<"Energy", " ", "Technology">>,
    <<"Robotics", " ", "and", " ", "Automation">>,
    <<"Urban", " ", "Air", " ", "Mobility", " ", "(UAM)">> >>

SuccessStatus == <<"Message", " ", "received", " ", "successfully">>

(* x in INDUSTRIES *)
in_INDUSTRIES_any(x) == x # <<>>

in_INDUSTRIES(x) == \E i \in 1..Len(INDUSTRIES) : INDUSTRIES[i] = x

RECURSIVE industry_lines(_)
(* "\n".join([f"- {x}" for x in INDUSTRIES]) from position i on *)
industry_lines(i) ==
    IF i > Len(INDUSTRIES) THEN <<>>
    ELSE <<"-", " ">> \o INDUSTRIES[i]
         \o (IF i < Len(INDUSTRIES) THEN <<"\n">> ELSE <<>>)
         \o industry_lines(i + 1)

InitialState == [
    step |-> "ask_company_name",
    company_name |-> <<>>,
    company_background |-> <<>>,
    industry_name |-> <<>>,
    industry_confirmed |-> FALSE,
    customer_name |-> <<>>,
    created |-> FALSE ]

User(text) == [role |-> "user", content |-> text]

Assistant(text) == [role |-> "assistant", content |-> text]

Greeting == Assistant(<<"Hi! What's your company name?">>)

----------------------------------------------------------------------------
(* JSON values and the collaborators' replies *)

JStr(s) == [t |-> "str", s |-> s]
JNull == [t |-> "null", s |-> <<>>]
JNum == [t |-> "num", s |-> <<>>]
JTrue == [t |-> "true", s |-> <<>>]
JFalse == [t |-> "false", s |-> <<>>]

(* Python truthiness of a JSON value (JNum stands for a non-zero number) *)
truthy(v) == CASE v.t = "str" -> v.s # <<>>
               [] v.t = "null" -> FALSE
               [] v.t = "false" -> FALSE
               [] OTHER -> TRUE

(* Replies of llm.invoke to the extractor prompt.  kind: "error" - the call
   raised; "text" - content without a {...} span; "badjson" - a {...} span
   json.loads rejects; "json" - a {...} span that parses to the dict obj. *)
ExtractorReplies == {
    [kind |-> "error", text |-> <<"connection", " ", "refused">>],
    [kind |-> "text", text |-> <<" ", "Sure!", " ">>],
    [kind |-> "badjson", text |-> <<"{mode:", " ", "qa}">>],
    [kind |-> "json", text |-> <<"{qa}">>,
     obj |-> [mode |-> JStr(<<"qa">>), answer |-> JStr(<<" ", "Odoo", " ", "is", " ", "an", " ", "ERP.", " ">>), value |-> JStr(<<>>)]],
    [kind |-> "json", text |-> <<"{intake-empty}">>,
     obj |-> [mode |-> JStr(<<"intake">>), answer |-> JStr(<<>>), value |-> JStr(<<" ">>)]],
    [kind |-> "json", text |-> <<"{intake-Globex}">>,
     obj |-> [mode |-> JStr(<<"intake">>), answer |-> JStr(<<>>), value |-> JStr(<<" ", "Globex", " ", "Ltd", " ">>)]],
    [kind |-> "json", text |-> <<"{intake-Aerospace}">>,
     obj |-> [mode |-> JStr(<<"intake">>), answer |-> JStr(<<>>), value |-> JStr(<<"Aerospace">>)]],
    [kind |-> "json", text |-> <<"{intake-number}">>,
     obj |-> [mode |-> JStr(<<"intake">>), answer |-> JStr(<<>>), value |-> JNum]],
    [kind |-> "json", text |-> <<"{qa-no-answer}">>,
     obj |-> [mode |-> JStr(<<"qa">>), value |-> JStr(<<>>)]],
    [kind |-> "json", text |-> <<"{note}">>,
     obj |-> [note |-> JStr(<<"hello">>)]] }

(* Replies of llm.invoke to the classifier prompt *)
ClassifierReplies == {
    [kind |-> "error", text |-> <<"connection", " ", "refused">>],
    [kind |-> "text", text |-> <<"Aerospace">>],
    [kind |-> "json", text |-> <<"{Aerospace}">>,
     obj |-> [industry_name |-> JStr(<<" ", "Aerospace", "\n">>)]],
    [kind |-> "json", text |-> <<"{aerospace}">>,
     obj |-> [industry_name |-> JStr(<<"aerospace">>)]],
    [kind |-> "json", text |-> <<"{null}">>,
     obj |-> [industry_name |-> JNull]],
    [kind |-> "json", text |-> <<"{number}">>,
     obj |-> [industry_name |-> JNum]] }

(* Outcomes of requests.post / raise_for_status / r.json().  kind:
   "timeout", "http_500" - an exception inside the try; "body" - a 2xx
   response whose JSON body is the dict obj; "body_list" - a 2xx response
   whose JSON body is not an object. *)
ApiReplies == {
    [kind |-> "timeout", text |-> <<"Read", " ", "timed", " ", "out">>],
    [kind |-> "http_500", text |-> <<"500", " ", "Server", " ", "Error">>],
    [kind |-> "body", text |-> <<"{'success':", " ", "True}">>,
     obj |-> [success |-> JTrue]],
    [kind |-> "body", text |-> <<"{'status':", " ", "'Message received successfully'}">>,
     obj |-> [status |-> JStr(SuccessStatus)]],
    [kind |-> "body", text |-> <<"{'success':", " ", "False}">>,
     obj |-> [success |-> JFalse, status |-> JStr(<<"quota", " ", "exceeded">>)]],
    [kind |-> "body_list", text |-> <<"[]">>] }

(* What the user types.  on_submit reads the text itself only in step
   confirm_industry (is_yes / is_no); in every other step it tests it for
   blankness, hands it to the extractor, whose reply is drawn independently
   of it, and appends it to the transcript. *)
Utterances(st) ==
    {<<>>, <<" ", "\t">>, <<"Acme", " ">>}
    \cup (IF st.step = "confirm_industry" THEN {<<" ", "Yes", " ">>, <<"NO">>} ELSE {})

(* ... once settled: blank, or an answer to the question asked *)
SettledUtterances(st) ==
    {<<>>, <<" ", "\t">>}
    \cup (IF st.step = "confirm_industry" THEN {<<" ", "Yes", " ">>} ELSE {<<"Acme", " ">>})

(* The replies SYSTEM_EXTRACTOR asks for when the user answers the question:
   mode "intake" with the value, for industry_pick one of the labels *)
SettledExtractorReplies(st) ==
    {r \in ExtractorReplies :
        /\ r.kind = "json"
        /\ {"mode", "answer", "value"} \subseteq DOMAIN r.obj
        /\ r.obj["mode"] = JStr(<<"intake">>)
        /\ r.obj["value"].t = "str"
        /\ \E i \in 1..Len(r.obj["value"].s) : r.obj["value"].s[i] \notin Whitespace
        /\ st.step = "pick_industry" =>
              \E i \in 1..Len(INDUSTRIES) : INDUSTRIES[i] = r.obj["value"].s}

(* The replies SYSTEM_INDUSTRY asks for: exactly one industry from the list *)
SettledClassifierReplies ==
    {r \in ClassifierReplies :
        /\ r.kind = "json"
        /\ r.obj["industry_name"].t = "str"
        /\ \E i \in 1..Len(INDUSTRIES) :
              r.obj["industry_name"].s \in {INDUSTRIES[i], <<" ">> \o INDUSTRIES[i] \o <<"\n">>}}

(* The endpoint's successful responses *)
SettledApiReplies ==
    {r \in ApiReplies :
        /\ r.kind = "body"
        /\ \/ "success" \in DOMAIN r.obj /\ r.obj["success"] = JTrue
           \/ "status" \in DOMAIN r.obj /\ r.obj["status"] = JStr(SuccessStatus)}

----------------------------------------------------------------------------
(* Helpers of on_submit *)

parse_json(raw) ==
    IF raw.kind = "json" THEN raw.obj
    ELSE [mode |-> JStr(<<"qa">>),
          answer |-> JStr(<<"(server) Model returned non-JSON output:", "\n">>
                          \o Take(strip(raw.text), RawLimit)),
          value |-> JStr(<<>>)]

(* llm.invoke(...).content.strip() then parse_json; defined when the call
   did not raise *)
llm_extract(raw) == parse_json([raw EXCEPT !.text = strip(raw.text)])

(* data.get(key) or "" *)
get_or_empty(data, key) ==
    IF key \in DOMAIN data /\ truthy(data[key]) THEN data[key] ELSE JStr(<<>>)

(* (data.get(key) or "").strip() raises AttributeError on a non-string *)
get_strip_raises(data, key) == get_or_empty(data, key).t # "str"

get_strip_nostrip(data, key) == get_or_empty(data, key).s

get_strip(data, key) == strip(get_or_empty(data, key).s)

is_empty_never(txt) == FALSE

(* `not name` on a stripped string *)
is_empty(txt) == txt = <<>>

(* data["mode"] raises KeyError *)
mode_raises(data) == "mode" \notin DOMAIN data

is_qa(data) == data["mode"] = JStr(<<"qa">>)

(* data["answer"].strip() raises KeyError or AttributeError *)
answer_raises(data) == "answer" \notin DOMAIN data \/ data["answer"].t # "str"

llm_classify_industry_raises(raw) ==
    raw.kind = "error" \/ get_strip_raises(llm_extract(raw), "industry_name")

(* defined when the call did not raise *)
llm_classify_industry(raw) == get_strip(llm_extract(raw), "industry_name")

YesWords == {<<"y">>, <<"yes">>, <<"yeah">>, <<"yep">>, <<"correct">>, <<"ya">>, <<"betul">>, <<"true">>}

NoWords == {<<"n">>, <<"no">>, <<"nope">>, <<"tak">>, <<"tidak">>, <<"bukan">>, <<"false">>}

is_yes_unless_no(txt) == lower(strip(txt)) \notin NoWords

is_yes_case_sensitive(txt) == strip(txt) \in YesWords

is_yes(txt) == lower(strip(txt)) \in YesWords

is_no_unless_yes(txt) == lower(strip(txt)) \notin YesWords

is_no(txt) == lower(strip(txt)) \in NoWords

industry_accepted_no_flag(st) == [st EXCEPT !.step = "ask_customer_name"]

industry_accepted_keep_step(st) == [st EXCEPT !.industry_confirmed = TRUE]

(* is_yes branch of confirm_industry *)
industry_accepted(st) ==
    [st EXCEPT !.industry_confirmed = TRUE, !.step = "ask_customer_name"]

industry_declined_restart(st) ==
    [st EXCEPT !.company_name = <<>>, !.company_background = <<>>,
               !.industry_name = <<>>, !.industry_confirmed = FALSE,
               !.step = "ask_company_name"]

(* is_no branch of confirm_industry *)
industry_declined(st) ==
    [st EXCEPT !.industry_name = <<>>, !.industry_confirmed = FALSE,
               !.step = "pick_industry"]

reset_state_keep_customer(st) ==
    [st EXCEPT !.step = "ask_company_name", !.company_name = <<>>,
               !.company_background = <<>>, !.industry_name = <<>>,
               !.industry_confirmed = FALSE, !.created = FALSE]

reset_state_keep_step(st) ==
    [st EXCEPT !.company_name = <<>>,
               !.company_background = <<>>, !.industry_name = <<>>,
               !.industry_confirmed = FALSE, !.customer_name = <<>>,
               !.created = FALSE]

(* state.update({...}) after creation *)
reset_state(st) ==
    [st EXCEPT !.step = "ask_company_name", !.company_name = <<>>,
               !.company_background = <<>>, !.industry_name = <<>>,
               !.industry_confirmed = FALSE, !.customer_name = <<>>,
               !.created = FALSE]

api_raises(resp) == resp.kind \in {"timeout", "http_500"}

api_ok_success_only(result) == "success" \in DOMAIN result /\ result["success"] = JTrue

api_ok_any(result) == "success" \in DOMAIN result

(* (result.get("success") is True) or (result.get("status") == sentinel) *)
api_ok(result) ==
    \/ "success" \in DOMAIN result /\ result["success"] = JTrue
    \/ "status" \in DOMAIN result /\ result["status"] = JStr(SuccessStatus)

Call(fn, arg, reply) == [fn |-> fn, arg |-> arg, reply |-> reply]

Posted(cs) == \E i \in 1..Len(cs) : cs[i].fn = "requests.post"

----------------------------------------------------------------------------
(* How a turn ends *)

(* affirmed: an affirmative reply in confirm_industry was accepted and no
   creation request has been sent since *)
NextAffirmed(st, cs) ==
    IF Posted(cs) THEN FALSE
    ELSE IF state.step = "confirm_industry" /\ st.step = "ask_customer_name" THEN TRUE
    ELSE affirmed

(* return messages, state *)
Return(user_input, st, msgs, cs) ==
    /\ Len(msgs) <= MaxMessages
    /\ state' = st
    /\ messages' = msgs
    /\ last' = [user_input |-> user_input, state |-> state, messages |-> messages,
                affirmed |-> affirmed, calls |-> cs, outcome |-> "return"]
    /\ affirmed' = NextAffirmed(st, cs)
    /\ settled' = settled

(* an exception leaves on_submit *)
Raise(user_input, st, cs) ==
    /\ state' = st
    /\ messages' = messages
    /\ last' = [user_input |-> user_input, state |-> state, messages |-> messages,
                affirmed |-> affirmed, calls |-> cs, outcome |-> "raise"]
    /\ affirmed' = NextAffirmed(st, cs)
    /\ settled' = settled

(* What the environment of a turn may supply *)
UserInputs == IF settled THEN SettledUtterances(state) ELSE Utterances(state)

ExtractorChoices == IF settled THEN SettledExtractorReplies(state) ELSE ExtractorReplies

ClassifierChoices == IF settled THEN SettledClassifierReplies ELSE ClassifierReplies

ApiChoices == IF settled THEN SettledApiReplies ELSE ApiReplies

----------------------------------------------------------------------------
(* The branches of on_submit, one per step.  msgs is the transcript with the
   user's message already appended (line 92). *)

step_ask_company_name(user_input, msgs) ==
    \E raw \in ExtractorChoices :
        LET cs == <<Call("llm_extract", "company_name", raw)>>
            data == llm_extract(raw)
            name == get_strip(data, "value")
        IN  IF raw.kind = "error" \/ mode_raises(data) THEN Raise(user_input, state, cs)
            ELSE IF is_qa(data) THEN
                IF answer_raises(data) THEN Raise(user_input, state, cs)
                ELSE Return(user_input, state,
                            msgs \o <<Assistant(strip(data["answer"].s)),
                                      Assistant(<<"Now, what's your company name?">>)>>, cs)
            ELSE IF get_strip_raises(data, "value") THEN Raise(user_input, state, cs)
            ELSE IF is_empty(name) THEN
                Return(user_input, state,
                       Append(msgs, Assistant(<<"What company name should I use? (You can give a placeholder.)">>)), cs)
            ELSE Return(user_input,
                        [state EXCEPT !.company_name = name, !.step = "ask_background"],
                        Append(msgs, Assistant(<<"Nice. What does your company do (1-2 sentences)?">>)), cs)

step_ask_background(user_input, msgs) ==
    \E raw \in ExtractorChoices :
        LET cs == <<Call("llm_extract", "company_background", raw)>>
            data == llm_extract(raw)
            bg == get_strip(data, "value")
            st1 == [state EXCEPT !.company_background = bg]
        IN  IF raw.kind = "error" \/ mode_raises(data) THEN Raise(user_input, state, cs)
            ELSE IF is_qa(data) THEN
                IF answer_raises(data) THEN Raise(user_input, state, cs)
                ELSE Return(user_input, state,
                            msgs \o <<Assistant(strip(data["answer"].s)),
                                      Assistant(<<"Back to intake: what does your company do (1-2 sentences)?">>)>>, cs)
            ELSE IF get_strip_raises(data, "value") THEN Raise(user_input, state, cs)
            ELSE IF is_empty(bg) THEN
                Return(user_input, state,
                       Append(msgs, Assistant(<<"Could you describe what your company does in 1-2 sentences?">>)), cs)
            ELSE \E craw \in ClassifierChoices :
                LET cs2 == Append(cs, Call("llm_classify_industry", "background", craw))
                    industry == llm_classify_industry(craw)
                IN  IF llm_classify_industry_raises(craw) THEN Raise(user_input, st1, cs2)
                    ELSE IF ~in_INDUSTRIES(industry) THEN
                        Return(user_input, [st1 EXCEPT !.step = "pick_industry"],
                               Append(msgs, Assistant(<<"I couldn't classify reliably. Please choose one:", "\n">>
                                                      \o industry_lines(1))), cs2)
                    ELSE Return(user_input,
                                [st1 EXCEPT !.industry_name = industry,
                                            !.industry_confirmed = FALSE,
                                            !.step = "confirm_industry"],
                                Append(msgs, Assistant(<<"I mapped your industry to **">> \o industry
                                                       \o <<"**. Is that correct? (yes/no)">>)), cs2)

step_confirm_industry(user_input, msgs) ==
    \E raw \in ExtractorChoices :
        LET cs == <<Call("llm_extract", "industry_pick", raw)>>
            gate == llm_extract(raw)
            u == strip(user_input)
        IN  IF raw.kind = "error" \/ mode_raises(gate) THEN Raise(user_input, state, cs)
            ELSE IF is_qa(gate) THEN
                IF answer_raises(gate) THEN Raise(user_input, state, cs)
                ELSE Return(user_input, state,
                            msgs \o <<Assistant(strip(gate["answer"].s)),
                                      Assistant(<<"Back to intake: is **">> \o state.industry_name
                                                \o <<"** correct? (yes/no)">>)>>, cs)
            ELSE IF is_yes(u) THEN
                Return(user_input, industry_accepted(state),
                       Append(msgs, Assistant(<<"Great. Who should I create the simulator instance for? (customer name)">>)), cs)
            ELSE IF is_no(u) THEN
                Return(user_input, industry_declined(state),
                       Append(msgs, Assistant(<<"Okay - choose one industry:", "\n">> \o industry_lines(1))), cs)
            ELSE Return(user_input, state,
                        Append(msgs, Assistant(<<"Please reply **yes** or **no**.">>)), cs)

step_pick_industry(user_input, msgs) ==
    \E raw \in ExtractorChoices :
        LET cs == <<Call("llm_extract", "industry_pick", raw)>>
            data == llm_extract(raw)
            pick == get_strip(data, "value")
        IN  IF raw.kind = "error" \/ mode_raises(data) THEN Raise(user_input, state, cs)
            ELSE IF is_qa(data) THEN
                IF answer_raises(data) THEN Raise(user_input, state, cs)
                ELSE Return(user_input, state,
                            msgs \o <<Assistant(strip(data["answer"].s)),
                                      Assistant(<<"Now, please choose one industry:", "\n">> \o industry_lines(1))>>, cs)
            ELSE IF get_strip_raises(data, "value") THEN Raise(user_input, state, cs)
            ELSE IF ~in_INDUSTRIES(pick) THEN
                Return(user_input, state,
                       Append(msgs, Assistant(<<"Please pick exactly one:", "\n">> \o industry_lines(1))), cs)
            ELSE Return(user_input,
                        [state EXCEPT !.industry_name = pick, !.industry_confirmed = TRUE,
                                      !.step = "ask_customer_name"],
                        Append(msgs, Assistant(<<"Got it - **">> \o pick
                                               \o <<"**. Who should I create the simulator instance for? (customer name)">>)), cs)

step_ask_customer_name(user_input, msgs) ==
    \E raw \in ExtractorChoices :
        LET cs == <<Call("llm_extract", "customer_name", raw)>>
            data == llm_extract(raw)
            customer == get_strip(data, "value")
            st1 == [state EXCEPT !.customer_name = customer]
        IN  IF raw.kind = "error" \/ mode_raises(data) THEN Raise(user_input, state, cs)
            ELSE IF is_qa(data) THEN
                IF answer_raises(data) THEN Raise(user_input, state, cs)
                ELSE Return(user_input, state,
                            msgs \o <<Assistant(strip(data["answer"].s)),
                                      Assistant(<<"Back to intake: what customer name should I create the simulator instance for?">>)>>, cs)
            ELSE IF get_strip_raises(data, "value") THEN Raise(user_input, state, cs)
            ELSE IF is_empty(customer) THEN
                Return(user_input, state,
                       Append(msgs, Assistant(<<"What customer name should I create the simulator instance for?">>)), cs)
            ELSE IF ~state.industry_confirmed \/ ~in_INDUSTRIES(state.industry_name) THEN
                Return(user_input, [state EXCEPT !.step = "pick_industry"],
                       Append(msgs, Assistant(<<"Before creating, choose one industry:", "\n">> \o industry_lines(1))), cs)
            ELSE \E resp \in ApiChoices :
                LET cs2 == Append(cs, Call("requests.post",
                                           [customer_name |-> st1.customer_name,
                                            industry_name |-> st1.industry_name], resp))
                IN  IF api_raises(resp) THEN
                        Return(user_input, st1,
                               Append(msgs, Assistant(<<"Request failed: ">> \o resp.text)), cs2)
                    ELSE IF resp.kind # "body" THEN Raise(user_input, st1, cs2)
                    ELSE IF api_ok(resp.obj) THEN
                        Return(user_input, [st1 EXCEPT !.created = TRUE, !.step = "done"],
                               Append(msgs, Assistant(<<"Created simulator instance for **">> \o st1.customer_name
                                                      \o <<"** under **">> \o st1.industry_name \o <<"**.">>)), cs2)
                    ELSE Return(user_input, st1,
                                Append(msgs, Assistant(<<"API responded with: ">> \o resp.text)), cs2)

on_submit(user_input) ==
    LET u == strip(user_input)
        msgs == Append(messages, User(u))
    IN  IF u = <<>> THEN Return(user_input, state, messages, <<>>)
        ELSE IF state.created THEN
            Return(user_input, reset_state(state),
                   Append(msgs, Assistant(<<"Want to create another instance? What's your company name?">>)), <<>>)
        ELSE IF state.step = "ask_company_name" THEN step_ask_company_name(user_input, msgs)
        ELSE IF state.step = "ask_background" THEN step_ask_background(user_input, msgs)
        ELSE IF state.step = "confirm_industry" THEN step_confirm_industry(user_input, msgs)
        ELSE IF state.step = "pick_industry" THEN step_pick_industry(user_input, msgs)
        ELSE IF state.step = "ask_customer_name" THEN step_ask_customer_name(user_input, msgs)
        ELSE Return(user_input, [state EXCEPT !.created = TRUE],
                    Append(msgs, Assistant(<<"Done. If you want another, type anything to restart.">>)), <<>>)

----------------------------------------------------------------------------
Init ==
    /\ state = InitialState
    /\ messages = <<Greeting>>
    /\ last = [user_input |-> <<>>, state |-> InitialState, messages |-> <<Greeting>>,
               affirmed |-> FALSE, calls |-> <<>>, outcome |-> "init"]
    /\ affirmed = FALSE
    /\ settled = FALSE

Next == \E user_input \in UserInputs : on_submit(user_input)

Spec == Init /\ [][Next]_vars

(* The collaborators and the user settle *)
Settle ==
    /\ ~settled
    /\ settled' = TRUE
    /\ UNCHANGED <<state, messages, last, affirmed>>

(* A turn with something typed in, once settled *)
NonBlankTurn ==
    /\ settled
    /\ \E user_input \in UserInputs : strip(user_input) # <<>> /\ on_submit(user_input)

LiveNext == Next \/ Settle

(* The enabling condition of NonBlankTurn: settled, and the transcript bound
   leaves room for the user's message and the reply *)
TurnEnabled == settled /\ Len(messages) + 2 <= MaxMessages

(* TurnEnabled is ENABLED <<NonBlankTurn>>_vars *)
TurnEnabledIsEnabling == TurnEnabled <=> ENABLED <<NonBlankTurn>>_vars

(* Once settled, the user keeps sending non-empty utterances: weak fairness
   of NonBlankTurn, WF_vars(NonBlankTurn), written with its enabling
   condition as the state predicate TurnEnabled *)
LiveSpec ==
    /\ Init
    /\ [][LiveNext]_vars
    /\ (<>[]TurnEnabled => []<><<NonBlankTurn>>_vars)

----------------------------------------------------------------------------
(* Vocabulary of the properties.  `last` is the turn that led to the current
   state: its utterance, the state and transcript it started from, the
   collaborator calls it made with their replies, and how it ended. *)

Acted == last.outcome # "init"

Returned == last.outcome = "return"

IsBlank(s) == \A i \in 1..Len(s) : s[i] \in {" ", "\t", "\n"}

Trimmed(s) == s = <<>> \/ (~IsBlank(<<s[1]>>) /\ ~IsBlank(<<s[Len(s)]>>))

(* t is s without its leading and trailing blanks *)
IsTrimOf(t, s) ==
    /\ Trimmed(t)
    /\ \E i \in 0..Len(s) :
          /\ i + Len(t) <= Len(s)
          /\ IsBlank(SubSeq(s, 1, i))
          /\ SubSeq(s, i + 1, i + Len(t)) = t
          /\ IsBlank(SubSeq(s, i + Len(t) + 1, Len(s)))

IndustryLabels == {INDUSTRIES[i] : i \in 1..Len(INDUSTRIES)}

IntakeFields(st) ==
    <<st.company_name, st.company_background, st.industry_name,
      st.industry_confirmed, st.customer_name, st.created>>

Appended == SubSeq(messages, Len(last.messages) + 1, Len(messages))

ExtendsTranscript ==
    /\ Len(messages) >= Len(last.messages)
    /\ SubSeq(messages, 1, Len(last.messages)) = last.messages

CallsTo(fn) == {i \in 1..Len(last.calls) : last.calls[i].fn = fn}

Called(fn) == CallsTo(fn) # {}

ReplyOf(fn) == last.calls[CHOOSE i \in CallsTo(fn) : TRUE].reply

(* the collaborator call itself failed *)
LlmCallFailed ==
    \E i \in 1..Len(last.calls) :
        /\ last.calls[i].fn \in {"llm_extract", "llm_classify_industry"}
        /\ last.calls[i].reply.kind = "error"

(* the extractor answered with a JSON object whose mode is not "qa" *)
ExtractorSaysIntake ==
    /\ Called("llm_extract")
    /\ ReplyOf("llm_extract").kind = "json"
    /\ "mode" \in DOMAIN ReplyOf("llm_extract").obj
    /\ ReplyOf("llm_extract").obj["mode"] # JStr(<<"qa">>)

(* ... and with a value that is a string with something in it *)
ExtractedValue ==
    IF /\ ExtractorSaysIntake
       /\ "value" \in DOMAIN ReplyOf("llm_extract").obj
       /\ ReplyOf("llm_extract").obj["value"].t = "str"
    THEN ReplyOf("llm_extract").obj["value"].s
    ELSE <<>>

SaysYes(u) == \E w \in YesWords : IsTrimOf(w, lower(u))

SaysNo(u) == \E w \in NoWords : IsTrimOf(w, lower(u))

(* the creation request failed in transport, or its body reports no success *)
CreationFailed ==
    /\ Called("requests.post")
    /\ \/ ReplyOf("requests.post").kind \in {"timeout", "http_500"}
       \/ /\ ReplyOf("requests.post").kind = "body"
          /\ ~ ( /\ "success" \in DOMAIN ReplyOf("requests.post").obj
                 /\ ReplyOf("requests.post").obj["success"] = JTrue )
          /\ ~ ( /\ "status" \in DOMAIN ReplyOf("requests.post").obj
                 /\ ReplyOf("requests.post").obj["status"] = JStr(SuccessStatus) )

----------------------------------------------------------------------------
(* C1: in every step, a turn whose utterance is empty or whitespace-only is
   a no-op: state and transcript are what they were, nothing is appended, no
   collaborator or creation call is made. *)
C1_EmptyTurnIsNoOp ==
    (Acted /\ IsBlank(last.user_input)) =>
        /\ Returned
        /\ state = last.state
        /\ messages = last.messages
        /\ last.calls = <<>>

(* a whitespace-only turn taken after the instance was created *)
C1_Witness ==
    /\ Acted /\ IsBlank(last.user_input) /\ last.user_input # <<>>
    /\ last.state.created /\ state.created /\ Len(messages) > 1

(* C2: a turn never raises; a failed call to the extractor or the classifier
   becomes an assistant message and leaves step and intake state as they
   were. *)
C2_LlmFailureIsCaught ==
    (Acted /\ LlmCallFailed) =>
        /\ Returned
        /\ state = last.state
        /\ Appended # <<>>
        /\ Appended[Len(Appended)].role = "assistant"

(* C3 as stated: every creation request is preceded by its own affirmative
   confirmation, with no other creation request in between. *)
C3_OnePostPerAffirmation ==
    (Acted /\ Called("requests.post")) => last.affirmed

(* C3 amended: at most one creation request per turn, sent only by a
   non-blank turn of step ask_customer_name that starts with
   industry_confirmed true and an in-set industry_name; industry_confirmed
   becomes true only by an affirmative reply in confirm_industry or by an
   in-set pick in pick_industry; no turn of confirm_industry sends a
   request. *)
C3_PostOnlyWhenIndustryConfirmed ==
    Acted =>
        /\ Cardinality(CallsTo("requests.post")) <= 1
        /\ Called("requests.post") =>
              /\ last.state.step = "ask_customer_name"
              /\ ~IsBlank(last.user_input)
              /\ last.state.industry_confirmed
              /\ last.state.industry_name \in IndustryLabels
        /\ (state.industry_confirmed /\ ~last.state.industry_confirmed) =>
              \/ last.state.step = "confirm_industry" /\ SaysYes(last.user_input)
              \/ last.state.step = "pick_industry" /\ state.industry_name \in IndustryLabels
        /\ last.state.step = "confirm_industry" => ~Called("requests.post")

(* a second creation request after a failed one, with no confirmation in
   between *)
C3_Witness ==
    /\ Acted /\ Called("requests.post") /\ ~last.affirmed
    /\ last.state.customer_name # <<>>

(* C4: in ask_background, for every classifier output, an out-of-set label
   leaves industry_name unset and moves to pick_industry, and only an in-set
   label is stored and moves to confirm_industry. *)
C4_ClassifierOutputIsChecked ==
    (Acted /\ Called("llm_classify_industry")
           /\ ReplyOf("llm_classify_industry").kind # "error") =>
        LET reply == ReplyOf("llm_classify_industry")
            InSet == /\ reply.kind = "json"
                     /\ "industry_name" \in DOMAIN reply.obj
                     /\ reply.obj["industry_name"].t = "str"
                     /\ \E l \in IndustryLabels : IsTrimOf(l, reply.obj["industry_name"].s)
        IN  IF InSet
            THEN state.step = "confirm_industry" /\ state.industry_name \in IndustryLabels
            ELSE state.step = "pick_industry" /\ state.industry_name = <<>>

(* C5: each text field is empty or a non-empty trimmed string, and
   industry_name is empty or one of the seven labels. *)
C5_FieldsTrimmedIndustryInSet ==
    /\ Trimmed(state.company_name)
    /\ Trimmed(state.company_background)
    /\ Trimmed(state.industry_name)
    /\ Trimmed(state.customer_name)
    /\ state.industry_name = <<>> \/ state.industry_name \in IndustryLabels

(* all four fields are filled, from padded extractor values *)
C5_Witness ==
    /\ state.company_name # <<>> /\ state.company_background # <<>>
    /\ state.industry_name # <<>> /\ state.customer_name # <<>>

(* C6 as stated: a negative reply in confirm_industry sends no creation
   request, clears only the industry fields, returns to pick_industry and
   keeps company_name and company_background. *)
C6_NegativeReplyClearsIndustry ==
    (Acted /\ last.state.step = "confirm_industry" /\ SaysNo(last.user_input)) =>
        /\ ~Called("requests.post")
        /\ state = [last.state EXCEPT !.industry_name = <<>>,
                                      !.industry_confirmed = FALSE,
                                      !.step = "pick_industry"]

(* C6 amended: the same, for a negative reply that the extractor does not
   class as a question (its reply is a JSON object with a mode other than
   "qa"). *)
C6_AcceptedNegativeReplyClearsIndustry ==
    (Acted /\ last.state.step = "confirm_industry" /\ SaysNo(last.user_input)
           /\ ExtractorSaysIntake) =>
        /\ Returned
        /\ ~Called("requests.post")
        /\ state = [last.state EXCEPT !.industry_name = <<>>,
                                      !.industry_confirmed = FALSE,
                                      !.step = "pick_industry"]

C6_Witness ==
    /\ Acted /\ last.state.step = "confirm_industry" /\ SaysNo(last.user_input)
    /\ ExtractorSaysIntake
    /\ last.state.industry_name # <<>> /\ state.company_background # <<>>
    /\ state.step = "pick_industry"

(* C7: when the creation request fails (transport failure or unsuccessful
   body) the turn appends a diagnostic assistant message, the step stays the
   one before the call and created stays false. *)
C7_CreationFailureKeepsStep ==
    (Acted /\ CreationFailed) =>
        /\ Returned
        /\ ExtendsTranscript
        /\ Len(Appended) = 2
        /\ Appended[2].role = "assistant"
        /\ \/ Appended[2].content = <<"Request failed: ">> \o ReplyOf("requests.post").text
           \/ Appended[2].content = <<"API responded with: ">> \o ReplyOf("requests.post").text
        /\ state.step = last.state.step
        /\ ~state.created

(* an HTTP 500 answer to the creation request *)
C7_Witness ==
    /\ Acted /\ CreationFailed /\ ReplyOf("requests.post").kind = "http_500"
    /\ state.step = "ask_customer_name"

(* C8: a failed creation request leaves every intake field as it was before
   the turn. *)
C8_CreationFailureKeepsFields ==
    (Acted /\ CreationFailed) => IntakeFields(state) = IntakeFields(last.state)

(* C9: when created is true, the next non-blank utterance resets every
   field, both flags and the step, appends the offer to start again, and
   is consumed: no extractor, classifier or creation call, no field set. *)
C9_ResetAfterCreation ==
    (Acted /\ last.state.created /\ ~IsBlank(last.user_input)) =>
        /\ Returned
        /\ state = InitialState
        /\ last.calls = <<>>
        /\ ExtendsTranscript
        /\ Len(Appended) = 2
        /\ Appended[1].role = "user"
        /\ IsTrimOf(Appended[1].content, last.user_input)
        /\ Appended[2] = Assistant(<<"Want to create another instance? What's your company name?">>)

C9_Witness ==
    /\ Acted /\ last.state.created /\ ~IsBlank(last.user_input)
    /\ last.state.customer_name # <<>> /\ last.state.step = "done"
    /\ state.step = "ask_company_name"

(* The field a step asks for *)
AskedField(st) ==
    CASE st.step = "ask_company_name" -> "company_name"
      [] st.step = "ask_background" -> "company_background"
      [] st.step = "ask_customer_name" -> "customer_name"
      [] OTHER -> "none"

(* C10 as stated: after a direct question about field F, the next non-blank
   utterance is stored in F verbatim (trimmed), whatever the extractor
   returns. *)
C10_UtteranceCapturedVerbatim ==
    (Acted /\ ~last.state.created /\ AskedField(last.state) # "none"
           /\ ~IsBlank(last.user_input)) =>
        IsTrimOf(state[AskedField(last.state)], last.user_input)

(* C10 amended: after a direct question about field F, the next non-blank
   utterance sets F to the extractor's value, trimmed, when the extractor
   answers in a mode other than "qa" with a string value that is not blank;
   otherwise F keeps its value.  The utterance itself is never stored. *)
C10_ExtractedValueCaptured ==
    (Acted /\ ~last.state.created /\ AskedField(last.state) # "none"
           /\ ~IsBlank(last.user_input)) =>
        IF IsBlank(ExtractedValue)
        THEN state[AskedField(last.state)] = last.state[AskedField(last.state)]
        ELSE IsTrimOf(state[AskedField(last.state)], ExtractedValue)

(* the extractor's padded value is stored, not the utterance *)
C10_Witness ==
    /\ Acted /\ last.state.step = "ask_customer_name" /\ ~IsBlank(last.user_input)
    /\ ~IsBlank(ExtractedValue)
    /\ state.customer_name # <<>>
    /\ ~IsTrimOf(state.customer_name, last.user_input)
    /\ ExtractedValue # state.customer_name

----------------------------------------------------------------------------
(* The steps that extract a field value *)
IntakeSteps == {"ask_company_name", "ask_background", "pick_industry", "ask_customer_name"}

(* the extractor answered, and not with a non-blank string value in a mode
   other than "qa" *)
EmptyExtraction ==
    /\ Called("llm_extract")
    /\ ReplyOf("llm_extract").kind # "error"
    /\ IsBlank(ExtractedValue)

(* C11: in every intake step a turn whose extraction is empty (QA mode, or
   intake mode with an empty value) changes no intake field, and a turn that
   extracts a non-empty company_name changes company_name only. *)
C11_MergeIsMonotonic ==
    (Acted /\ last.state.step \in IntakeSteps /\ Called("llm_extract")) =>
        /\ EmptyExtraction => IntakeFields(state) = IntakeFields(last.state)
        /\ (last.state.step = "ask_company_name" /\ ~IsBlank(ExtractedValue)) =>
              /\ IsTrimOf(state.company_name, ExtractedValue)
              /\ state = [last.state EXCEPT !.company_name = state.company_name,
                                            !.step = state.step]

(* an empty intake-mode extraction while customer_name is already set *)
C11_Witness ==
    /\ Acted /\ last.state.step = "ask_customer_name"
    /\ ExtractorSaysIntake /\ EmptyExtraction
    /\ last.state.customer_name # <<>> /\ state.customer_name # <<>>

(* the extractor's reply is no JSON object, or a JSON object without one of
   the keys mode, answer, value *)
MalformedExtraction ==
    /\ Called("llm_extract")
    /\ \/ ReplyOf("llm_extract").kind \in {"text", "badjson"}
       \/ /\ ReplyOf("llm_extract").kind = "json"
          /\ ~({"mode", "answer", "value"} \subseteq DOMAIN ReplyOf("llm_extract").obj)

(* C12: every malformed extractor response is treated as mode qa with the
   raw text as the answer: the turn returns, an assistant reply is appended,
   step and intake state are unchanged. *)
C12_MalformedExtractionIsQA ==
    (Acted /\ MalformedExtraction) =>
        /\ Returned
        /\ state = last.state
        /\ Len(Appended) >= 2
        /\ Appended[2].role = "assistant"

SuccessSentinelReply ==
    /\ Called("requests.post")
    /\ ReplyOf("requests.post").kind = "body"
    /\ \/ /\ "success" \in DOMAIN ReplyOf("requests.post").obj
          /\ ReplyOf("requests.post").obj["success"] = JTrue
       \/ /\ "status" \in DOMAIN ReplyOf("requests.post").obj
          /\ ReplyOf("requests.post").obj["status"] = JStr(SuccessStatus)

(* C13 as stated: on a successful creation response the turn appends a
   success message, sets created and moves the stage to chat. *)
C13_SuccessMovesToChat ==
    (Acted /\ SuccessSentinelReply) =>
        /\ Returned
        /\ state.created
        /\ state.step = "chat"

(* C13 amended: on a successful creation response (success is true, or
   status is the sentinel) the turn appends the success message naming the
   customer and the industry, sets created and moves the step to done. *)
C13_SuccessMovesToDone ==
    (Acted /\ SuccessSentinelReply) =>
        /\ Returned
        /\ state.created
        /\ state.step = "done"
        /\ Len(Appended) = 2
        /\ Appended[2] = Assistant(<<"Created simulator instance for **">> \o state.customer_name
                                   \o <<"** under **">> \o state.industry_name \o <<"**.">>)

(* success reported by the status sentinel only *)
C13_Witness ==
    /\ Acted /\ SuccessSentinelReply
    /\ "success" \notin DOMAIN ReplyOf("requests.post").obj
    /\ state.created

(* C14 as stated: in confirm_industry an affirmative utterance always sets
   industry_confirmed and moves to ask_customer_name, whatever the extractor
   returns. *)
C14_YesAlwaysConfirms ==
    (Acted /\ last.state.step = "confirm_industry" /\ SaysYes(last.user_input)) =>
        /\ state.industry_confirmed
        /\ state.step = "ask_customer_name"

(* C14 amended: it does so when the extractor's reply for the utterance is a
   JSON object with a mode other than "qa"; the rest of the state is kept. *)
C14_AcceptedYesConfirms ==
    (Acted /\ last.state.step = "confirm_industry" /\ SaysYes(last.user_input)
           /\ ExtractorSaysIntake) =>
        /\ Returned
        /\ state = [last.state EXCEPT !.industry_confirmed = TRUE,
                                      !.step = "ask_customer_name"]

C14_Witness ==
    /\ Acted /\ last.state.step = "confirm_industry" /\ SaysYes(last.user_input)
    /\ ExtractorSaysIntake
    /\ last.user_input # lower(last.user_input)
    /\ state.step = "ask_customer_name"

(* C15: in confirm_industry a reply that is neither affirmative nor negative
   changes nothing, for every extractor output: the step stays
   confirm_industry, industry_name and industry_confirmed keep their values,
   no creation request is sent; a turn that returns ends with a yes/no
   prompt. *)
C15_OtherReplyReprompts ==
    (Acted /\ last.state.step = "confirm_industry" /\ ~IsBlank(last.user_input)
           /\ ~SaysYes(last.user_input) /\ ~SaysNo(last.user_input)) =>
        /\ state = last.state
        /\ ~Called("requests.post")
        /\ Returned =>
              /\ Appended # <<>>
              /\ Appended[Len(Appended)] \in
                    {Assistant(<<"Please reply **yes** or **no**.">>),
                     Assistant(<<"Back to intake: is **">> \o state.industry_name
                               \o <<"** correct? (yes/no)">>)}

C15_Witness ==
    /\ Acted /\ last.state.step = "confirm_industry" /\ ~IsBlank(last.user_input)
    /\ ~SaysYes(last.user_input) /\ ~SaysNo(last.user_input)
    /\ ExtractorSaysIntake /\ Returned

(* The step that asks for the first field still to be filled, in the order
   company_name, company_background, industry_name, customer_name *)
StepForFirstUnset(st) ==
    IF st.company_name = <<>> THEN {"ask_company_name"}
    ELSE IF st.company_background = <<>> THEN {"ask_background"}
    ELSE IF st.industry_name = <<>> THEN {"pick_industry"}
    ELSE IF ~st.industry_confirmed THEN {"confirm_industry"}
    ELSE IF st.customer_name = <<>> THEN {"ask_customer_name"}
    ELSE {"done"}

(* C16: fields are filled in the fixed order, and the step asks for the
   first field still unset (for industry_name: still to be picked, or still
   to be confirmed). *)
C16_FieldsFilledInOrder ==
    /\ state.customer_name # <<>> => state.industry_name # <<>>
    /\ state.industry_name # <<>> => state.company_background # <<>>
    /\ state.company_background # <<>> => state.company_name # <<>>
    /\ state.step \in StepForFirstUnset(state)

(* C17: a turn that returns extends the transcript; with a non-blank
   utterance it appends one user message, the trimmed utterance, followed by
   one or two assistant messages. *)
C17_TranscriptAppendOnly ==
    (Acted /\ Returned) =>
        /\ ExtendsTranscript
        /\ IsBlank(last.user_input) => Appended = <<>>
        /\ ~IsBlank(last.user_input) =>
              /\ Len(Appended) \in {2, 3}
              /\ Appended[1].role = "user"
              /\ IsTrimOf(Appended[1].content, last.user_input)
              /\ \A i \in 2..Len(Appended) : Appended[i].role = "assistant"

(* a padded utterance answered by a QA answer and the repeated question *)
C17_Witness ==
    /\ Acted /\ Returned /\ Len(Appended) = 3
    /\ Appended[1].content # last.user_input
    /\ Len(last.messages) > 1

(* C18: in step ask_customer_name industry_confirmed is true and
   industry_name is in the label set, so the "Before creating" guard is
   never taken, and every creation request carries a non-empty trimmed
   customer_name and an in-set industry_name. *)
C18_CustomerStepHasConfirmedIndustry ==
    /\ state.step = "ask_customer_name" =>
          state.industry_confirmed /\ state.industry_name \in IndustryLabels
    /\ Acted => ~(last.state.step = "ask_customer_name" /\ state.step = "pick_industry")
    /\ \A i \in 1..Len(messages) :
          messages[i] # Assistant(<<"Before creating, choose one industry:", "\n">> \o industry_lines(1))
    /\ \A i \in CallsTo("requests.post") :
          /\ last.calls[i].arg.customer_name # <<>>
          /\ Trimmed(last.calls[i].arg.customer_name)
          /\ last.calls[i].arg.industry_name \in IndustryLabels

(* a creation request sent after an affirmative confirmation *)
C18_Witness ==
    /\ Acted /\ Called("requests.post")
    /\ \E i \in 1..Len(messages) :
          messages[i] = Assistant(<<"Great. Who should I create the simulator instance for? (customer name)">>)

(* C19: created is true exactly when step is done; created becomes true only
   in a turn whose creation request got a successful response; the final
   fall-through branch is never executed. *)
C19_CreatedIffDone ==
    /\ state.created <=> state.step = "done"
    /\ (Acted /\ state.created /\ ~last.state.created) => SuccessSentinelReply
    /\ \A i \in 1..Len(messages) :
          messages[i] # Assistant(<<"Done. If you want another, type anything to restart.">>)

(* the step after a reset that followed a creation *)
C19_Witness ==
    /\ Acted /\ last.state.created /\ last.state.step = "done"
    /\ ~state.created /\ state.step = "ask_company_name"

----------------------------------------------------------------------------
(* Turns still needed to create the instance when every turn is usable *)
TurnsToCreate(st) ==
    CASE st.step = "ask_company_name" -> 4
      [] st.step = "ask_background" -> 3
      [] st.step = "confirm_industry" -> 2
      [] st.step = "pick_industry" -> 2
      [] st.step = "ask_customer_name" -> 1
      [] OTHER -> 0

(* the transcript bound leaves room for them (two messages a turn) *)
RoomToCreate == Len(messages) + 2 * TurnsToCreate(state) <= MaxMessages

(* C20: no reachable state is a dead end: once the user keeps sending
   non-empty utterances and the collaborators return usable results, created
   becomes true; and once created is true, one further utterance brings the
   controller back to its initial state. *)
C20_NoDeadEnd ==
    /\ (settled /\ RoomToCreate) ~> state.created
    /\ (settled /\ state.created /\ Len(messages) + 2 <= MaxMessages) ~> (state = InitialState)

(* created after a detour: the company name had to be asked twice *)
C20_Witness ==
    /\ settled /\ state.created
    /\ \E i \in 1..Len(messages) :
          messages[i] = Assistant(<<"What company name should I use? (You can give a placeholder.)">>)

====
